---- MODULE Spec2Model ----
(***************************************************************************)
(* Ducobox connectivity board sensor platform (sensor.py): the polling     *)
(* coordinator, the sensor description tables, the two entity variants,    *)
(* the nested-field accessor and the unit conversions.                     *)
(***************************************************************************)
EXTENDS Integers, Sequences, FiniteSets, TLC

VARIABLES
    duco_client,          \* DucoboxCoordinator.duco_client: "DucoPy" or "None"
    pc,                   \* position of the refresh in progress
    calls,                \* endpoint calls made in the current polling interval
    info_resp,            \* what get_info() answered in the current refresh
    nodes_resp,           \* what get_nodes() answered in the current refresh
    local_data,           \* the local `data` of _fetch_data
    outcome,              \* how the last finished _async_update_data ended
    data,                 \* coordinator.data
    last_update_success,  \* coordinator.last_update_success
    setup,                \* async_setup_entry: "pending", "done", "not_ready", "failed"
    entities,             \* the list handed to async_add_entities
    first_nodes,          \* the 'Nodes' list async_setup_entry iterated over
    unique_ids,           \* the _attr_unique_id of each entity, in the order of entities
    call,                 \* the function application under study (SpecFn)
    ret                   \* its result (SpecFn)

vars == <<duco_client, pc, calls, info_resp, nodes_resp, local_data, outcome, data,
          last_update_success, setup, entities, first_nodes, unique_ids, call, ret>>

coordVars == <<duco_client, pc, calls, info_resp, nodes_resp, local_data, outcome,
               data, last_update_success, setup, entities, first_nodes, unique_ids>>

(***************************************************************************)
(* Python values.  Every value is a record tagged with its type.  Raised   *)
(* stands for "the call raised an exception" where a value is expected.    *)
(***************************************************************************)
None == [t |-> "none"]
Raised == [t |-> "raise"]
IntV(n) == [t |-> "int", n |-> n]
StrV(s) == [t |-> "str", s |-> s]
DictV(f) == [t |-> "dict", d |-> f]
ListV(l) == [t |-> "list", l |-> l]
EmptyDict == DictV([k \in {} |-> None])

\* {k: v}
D1(k, v) == DictV([x \in {k} |-> v])

\* dict.get(key): the value, or None when the key is missing
DictGet(dct, key) == IF key \in DOMAIN dct.d THEN dct.d[key] ELSE None

\* dct[key] = value
DictSet(dct, key, value) ==
    DictV([x \in (DOMAIN dct.d) \cup {key} |-> IF x = key THEN value ELSE dct.d[x]])

\* Python truthiness, as used by `x or default` and `if x and ...`
Truthy(v) ==
    CASE v.t = "none" -> FALSE
      [] v.t = "int" -> v.n # 0
      [] v.t = "str" -> v.s # ""
      [] v.t = "dict" -> DOMAIN v.d # {}
      [] v.t = "list" -> v.l # <<>>
      [] OTHER -> TRUE

(***************************************************************************)
(* IEEE-754 binary64 arithmetic, as the float operations of the            *)
(* conversions use it.  A 53-bit significand does not fit a 32-bit integer, *)
(* so naturals are little-endian sequences of limbs.                       *)
(***************************************************************************)
MantBits == 53
Base == 2 ^ 15
LimbBits == CHOOSE k \in 1..30 : 2 ^ k = Base

Abs(n) == IF n < 0 THEN -n ELSE n
Sgn(n) == IF n < 0 THEN 1 ELSE 0

RECURSIVE Limbs(_)
Limbs(n) == IF n = 0 THEN <<>> ELSE <<n % Base>> \o Limbs(n \div Base)

RECURSIVE ToNat(_)
ToNat(N) == IF N = <<>> THEN 0 ELSE Head(N) + Base * ToNat(Tail(N))

RECURSIVE Trim(_)
Trim(N) ==
    IF N = <<>> THEN N
    ELSE IF N[Len(N)] # 0 THEN N ELSE Trim(SubSeq(N, 1, Len(N) - 1))

Limb(N, i) == IF i >= 1 /\ i <= Len(N) THEN N[i] ELSE 0

Bit(N, j) == (Limb(N, (j \div LimbBits) + 1) \div (2 ^ (j % LimbBits))) % 2

BitLen(N) ==
    LET T == Trim(N)
    IN  IF T = <<>> THEN 0
        ELSE (Len(T) - 1) * LimbBits
             + (CHOOSE k \in 1..LimbBits : 2 ^ (k - 1) <= T[Len(T)] /\ T[Len(T)] < 2 ^ k)

ShiftRight(N, s) ==
    LET q == s \div LimbBits
        r == s % LimbBits
    IN  Trim([i \in 1..(IF Len(N) > q THEN Len(N) - q ELSE 0) |->
                (Limb(N, i + q) \div (2 ^ r))
                + (Limb(N, i + q + 1) % (2 ^ r)) * (2 ^ (LimbBits - r))])

ShiftLeft(N, s) ==
    LET q == s \div LimbBits
        r == s % LimbBits
    IN  Trim([i \in 1..(Len(N) + q + 1) |->
                (Limb(N, i - q) % (2 ^ (LimbBits - r))) * (2 ^ r)
                + (Limb(N, i - q - 1) \div (2 ^ (LimbBits - r)))])

RECURSIVE MulSmall(_, _, _)
MulSmall(N, k, c) ==
    IF N = <<>> THEN Limbs(c)
    ELSE LET t == Head(N) * k + c
         IN  <<t % Base>> \o MulSmall(Tail(N), k, t \div Base)

RECURSIVE AddLimbs(_, _, _)
AddLimbs(M, N, c) ==
    IF M = <<>> /\ N = <<>> THEN Limbs(c)
    ELSE LET t == Limb(M, 1) + Limb(N, 1) + c
         IN  <<t % Base>> \o AddLimbs(IF M = <<>> THEN M ELSE Tail(M),
                                      IF N = <<>> THEN N ELSE Tail(N), t \div Base)

RECURSIVE MulLimbs(_, _)
MulLimbs(M, N) ==
    IF M = <<>> THEN <<>>
    ELSE AddLimbs(MulSmall(N, Head(M), 0), <<0>> \o MulLimbs(Tail(M), N), 0)

RECURSIVE DivSmall(_, _, _, _)
DivSmall(N, d, i, r) ==
    IF i = 0 THEN [q |-> <<>>, r |-> r]
    ELSE LET t == r * Base + N[i]
             rest == DivSmall(N, d, i - 1, t % d)
         IN  [q |-> rest.q \o <<t \div d>>, r |-> rest.r]

\* A float is (-1)^s * m * 2^e with m = 0 or 2^52 <= m < 2^53.
FloatV(s, m, e) == [t |-> "float", s |-> s, m |-> m, e |-> e]
FZero == FloatV(0, <<>>, 0)

\* (N + a sticky fraction) * 2^e rounded to nearest, ties to even
RoundEven(s, N0, sticky, e) ==
    LET N == Trim(N0)
        L == BitLen(N)
        drop == L - MantBits
    IN  IF N = <<>> THEN FZero
        ELSE IF drop <= 0 THEN FloatV(s, ShiftLeft(N, -drop), e + drop)
        ELSE LET kept == ShiftRight(N, drop)
                 guard == Bit(N, drop - 1)
                 rest == sticky \/ \E j \in 0..(drop - 2) : Bit(N, j) = 1
                 up == guard = 1 /\ (rest \/ Bit(kept, 0) = 1)
                 inc == AddLimbs(kept, <<1>>, 0)
             IN  IF ~up THEN FloatV(s, kept, e + drop)
                 ELSE IF BitLen(inc) > MantBits
                 THEN FloatV(s, ShiftRight(inc, 1), e + drop + 1)
                 ELSE FloatV(s, inc, e + drop)

\* float(n) for an int n
FromInt(n) == RoundEven(Sgn(n), Limbs(Abs(n)), FALSE, 0)

\* f * g
FMul(f, g) ==
    IF f.m = <<>> \/ g.m = <<>> THEN FZero
    ELSE RoundEven((f.s + g.s) % 2, MulLimbs(f.m, g.m), FALSE, f.e + g.e)

\* f / d for a float f and a nonzero integer d below the limb base
FDivSmall(f, d) ==
    IF f.m = <<>> THEN FZero
    ELSE LET num == ShiftLeft(f.m, 4 * LimbBits)
             qr == DivSmall(num, Abs(d), Len(num), 0)
         IN  RoundEven((f.s + Sgn(d)) % 2, qr.q, qr.r # 0, f.e - 4 * LimbBits)

\* round(f): the nearest int, ties to even
PyRound(f) ==
    IF f.m = <<>> THEN 0
    ELSE IF f.e >= 0 THEN (1 - 2 * f.s) * ToNat(ShiftLeft(f.m, f.e))
    ELSE LET n == -f.e
             ip == ToNat(ShiftRight(f.m, n))
             guard == Bit(f.m, n - 1)
             rest == \E j \in 0..(n - 2) : Bit(f.m, j) = 1
             up == guard = 1 /\ (rest \/ ip % 2 = 1)
         IN  (1 - 2 * f.s) * (IF up THEN ip + 1 ELSE ip)

\* float(value): ints and floats convert, anything else in the model raises
\* (the model's strings are not numerals)
PyFloat(value) ==
    CASE value.t = "int" -> FromInt(value.n)
      [] value.t = "float" -> value
      [] OTHER -> Raised

\* value / d (true division by a number equal to the small integer d)
PyTrueDiv(value, d) ==
    CASE value.t = "int" -> FDivSmall(FromInt(value.n), d)
      [] value.t = "float" -> FDivSmall(value, d)
      [] OTHER -> Raised

\* value * g for a float g
PyMulFloat(value, g) ==
    CASE value.t = "int" -> FMul(FromInt(value.n), g)
      [] value.t = "float" -> FMul(value, g)
      [] OTHER -> Raised

\* the literal .1
PointOne == FDivSmall(FromInt(1), 10)

(***************************************************************************)
(* The description tables.  A description's value_fn is a lambda that      *)
(* applies one processing function to safe_get(data, *path); the tables    *)
(* record the key, the path and the name of that function ("safe_get"      *)
(* where the lambda returns safe_get's result as it is).                   *)
(***************************************************************************)
BoxDescription(key, process, path) == [key |-> key, process |-> process, path |-> path]

NodeDescription(key, process, path, node_type) ==
    [key |-> key, process |-> process, path |-> path, sensor_key |-> key,
     node_type |-> node_type]

SENSORS ==
    <<
      BoxDescription("TempOda", "_process_temperature", <<"Ventilation", "Sensor", "TempOda", "Val">>),
      BoxDescription("TempSup", "_process_temperature", <<"Ventilation", "Sensor", "TempSup", "Val">>),
      BoxDescription("TempEta", "_process_temperature", <<"Ventilation", "Sensor", "TempEta", "Val">>),
      BoxDescription("TempEha", "_process_temperature", <<"Ventilation", "Sensor", "TempEha", "Val">>),
      BoxDescription("SpeedSup", "_process_speed", <<"Ventilation", "Fan", "SpeedSup", "Val">>),
      BoxDescription("SpeedEha", "_process_speed", <<"Ventilation", "Fan", "SpeedEha", "Val">>),
      BoxDescription("PressSup", "_process_pressure", <<"Ventilation", "Fan", "PressSup", "Val">>),
      BoxDescription("PressEha", "_process_pressure", <<"Ventilation", "Fan", "PressEha", "Val">>),
      BoxDescription("RssiWifi", "_process_rssi", <<"General", "Lan", "RssiWifi", "Val">>),
      BoxDescription("UpTime", "_process_uptime", <<"General", "Board", "UpTime", "Val">>),
      BoxDescription("TimeFilterRemain", "_process_timefilterremain", <<"HeatRecovery", "General", "TimeFilterRemain", "Val">>),
      BoxDescription("BypassPos", "_process_bypass_position", <<"HeatRecovery", "Bypass", "Pos", "Val">>)
    >>

NODE_SENSORS_BOX ==
    <<
      NodeDescription("Mode", "safe_get", <<"Ventilation", "Mode">>, "BOX"),
      NodeDescription("State", "safe_get", <<"Ventilation", "State">>, "BOX"),
      NodeDescription("FlowLvlTgt", "safe_get", <<"Ventilation", "FlowLvlTgt">>, "BOX"),
      NodeDescription("TimeStateRemain", "safe_get", <<"Ventilation", "TimeStateRemain">>, "BOX"),
      NodeDescription("TimeStateEnd", "safe_get", <<"Ventilation", "TimeStateEnd">>, "BOX"),
      NodeDescription("Temp", "_process_node_temperature", <<"Sensor", "data", "Temp">>, "BOX"),
      NodeDescription("Rh", "_process_node_humidity", <<"Sensor", "data", "Rh">>, "BOX"),
      NodeDescription("IaqRh", "_process_node_iaq", <<"Sensor", "data", "IaqRh">>, "BOX")
    >>

NODE_SENSORS_UCCO2 ==
    <<
      NodeDescription("Temp", "_process_node_temperature", <<"Sensor", "data", "Temp">>, "UCCO2"),
      NodeDescription("Co2", "_process_node_co2", <<"Sensor", "data", "Co2">>, "UCCO2"),
      NodeDescription("IaqCo2", "_process_node_iaq", <<"Sensor", "data", "IaqCo2">>, "UCCO2")
    >>

NODE_SENSORS_BSRH ==
    <<
      NodeDescription("Temp", "_process_node_temperature", <<"Sensor", "data", "Temp">>, "BSRH"),
      NodeDescription("Rh", "_process_node_humidity", <<"Sensor", "data", "Rh">>, "BSRH"),
      NodeDescription("IaqRh", "_process_node_iaq", <<"Sensor", "data", "IaqRh">>, "BSRH")
    >>

NODE_SENSORS_VLVRH ==
    <<
      NodeDescription("State", "safe_get", <<"Ventilation", "State">>, "VLVRH"),
      NodeDescription("TimeStateRemain", "safe_get", <<"Ventilation", "TimeStateRemain">>, "VLVRH"),
      NodeDescription("TimeStateEnd", "safe_get", <<"Ventilation", "TimeStateEnd">>, "VLVRH"),
      NodeDescription("Mode", "safe_get", <<"Ventilation", "Mode">>, "VLVRH"),
      NodeDescription("FlowLvlTgt", "safe_get", <<"Ventilation", "FlowLvlTgt">>, "VLVRH"),
      NodeDescription("IaqRh", "_process_node_iaq", <<"Sensor", "data", "IaqRh">>, "VLVRH"),
      NodeDescription("Rh", "_process_node_iaq", <<"Sensor", "data", "Rh">>, "VLVRH"),
      NodeDescription("Temp", "_process_node_temperature", <<"Sensor", "data", "Temp">>, "VLVRH")
    >>

NODE_SENSORS_VLVCO2 ==
    <<
      NodeDescription("State", "safe_get", <<"Ventilation", "State">>, "VLVCO2"),
      NodeDescription("TimeStateRemain", "safe_get", <<"Ventilation", "TimeStateRemain">>, "VLVCO2"),
      NodeDescription("TimeStateEnd", "safe_get", <<"Ventilation", "TimeStateEnd">>, "VLVCO2"),
      NodeDescription("Mode", "safe_get", <<"Ventilation", "Mode">>, "VLVCO2"),
      NodeDescription("FlowLvlTgt", "safe_get", <<"Ventilation", "FlowLvlTgt">>, "VLVCO2"),
      NodeDescription("Co2", "_process_node_co2", <<"Sensor", "data", "Co2">>, "VLVCO2"),
      NodeDescription("IaqCo2", "_process_node_iaq", <<"Sensor", "data", "IaqCo2">>, "VLVCO2"),
      NodeDescription("Temp", "_process_node_temperature", <<"Sensor", "data", "Temp">>, "VLVCO2")
    >>

NODE_SENSORS_VLVCO2RH ==
    <<
      NodeDescription("State", "safe_get", <<"Ventilation", "State">>, "VLVCO2RH"),
      NodeDescription("TimeStateRemain", "safe_get", <<"Ventilation", "TimeStateRemain">>, "VLVCO2RH"),
      NodeDescription("TimeStateEnd", "safe_get", <<"Ventilation", "TimeStateEnd">>, "VLVCO2RH"),
      NodeDescription("Mode", "safe_get", <<"Ventilation", "Mode">>, "VLVCO2RH"),
      NodeDescription("FlowLvlTgt", "safe_get", <<"Ventilation", "FlowLvlTgt">>, "VLVCO2RH"),
      NodeDescription("Co2", "_process_node_co2", <<"Sensor", "data", "Co2">>, "VLVCO2RH"),
      NodeDescription("IaqCo2", "_process_node_iaq", <<"Sensor", "data", "IaqCo2">>, "VLVCO2RH"),
      NodeDescription("Rh", "_process_node_iaq", <<"Sensor", "data", "Rh">>, "VLVCO2RH"),
      NodeDescription("IaqRh", "_process_node_iaq", <<"Sensor", "data", "IaqRh">>, "VLVCO2RH"),
      NodeDescription("Temp", "_process_node_temperature", <<"Sensor", "data", "Temp">>, "VLVCO2RH")
    >>

NODE_SENSORS_UCBAT ==
    <<
      NodeDescription("State", "safe_get", <<"Ventilation", "State">>, "UCBAT"),
      NodeDescription("TimeStateRemain", "safe_get", <<"Ventilation", "TimeStateRemain">>, "UCBAT"),
      NodeDescription("TimeStateEnd", "safe_get", <<"Ventilation", "TimeStateEnd">>, "UCBAT"),
      NodeDescription("Mode", "safe_get", <<"Ventilation", "Mode">>, "UCBAT")
    >>

NodeTypeCodes == {"BOX", "UCCO2", "BSRH", "VLVRH", "VLVCO2", "VLVCO2RH", "UCBAT"}

NODE_SENSORS ==
    [code \in NodeTypeCodes |->
        CASE code = "BOX" -> NODE_SENSORS_BOX
          [] code = "UCCO2" -> NODE_SENSORS_UCCO2
          [] code = "BSRH" -> NODE_SENSORS_BSRH
          [] code = "VLVRH" -> NODE_SENSORS_VLVRH
          [] code = "VLVCO2" -> NODE_SENSORS_VLVCO2
          [] code = "VLVCO2RH" -> NODE_SENSORS_VLVCO2RH
          [] code = "UCBAT" -> NODE_SENSORS_UCBAT]

(***************************************************************************)
(* safe_get and the processing functions                                   *)
(***************************************************************************)
\* a safe_get that hands back the value it stopped at
RECURSIVE safe_get_stopped(_, _)
safe_get_stopped(dat, keys) ==
    IF keys = <<>> THEN dat
    ELSE IF dat.t = "dict" THEN safe_get_stopped(DictGet(dat, Head(keys)), Tail(keys))
    ELSE dat

RECURSIVE safe_get(_, _)
safe_get(dat, keys) ==
    IF keys = <<>> THEN dat
    ELSE IF dat.t = "dict" THEN safe_get(DictGet(dat, Head(keys)), Tail(keys))
    ELSE None

_process_node_temperature(value) == IF value # None THEN value ELSE None

_process_node_humidity(value) == IF value # None THEN value ELSE None

_process_node_co2(value) == IF value # None THEN value ELSE None

\* an air quality conversion that rescales the raw index to a percentage
_process_node_iaq_percent(value) ==
    IF value # None
    THEN IF value.t = "int" THEN IntV((value.n * 100) \div 255) ELSE Raised
    ELSE None

_process_node_iaq(value) == IF value # None THEN value ELSE None

_process_temperature(value) == IF value # None THEN PyTrueDiv(value, 10) ELSE None

\* a speed conversion that reports 0 for a missing reading
_process_speed_zero(value) == IF Truthy(value) THEN value ELSE IntV(0)

_process_speed(value) == IF value # None THEN value ELSE None

_process_pressure(value) ==
    IF value # None
    THEN LET f == PyFloat(value)
         IN  IF f = Raised THEN Raised ELSE PyMulFloat(f, PointOne)
    ELSE None

_process_rssi(value) == IF value # None THEN value ELSE None

_process_uptime(value) == IF value # None THEN value ELSE None

_process_timefilterremain(value) == IF value # None THEN value ELSE None

\* a bypass conversion that truncates where the code rounds
_process_bypass_truncated(value) ==
    IF value # None
    THEN IF value.t = "int" THEN IntV((value.n * 100) \div 255) ELSE Raised
    ELSE None

_process_bypass_position(value) ==
    IF value # None
    THEN LET q == PyTrueDiv(value, 255)
         IN  IF q = Raised THEN Raised ELSE IntV(PyRound(PyMulFloat(q, FromInt(100))))
    ELSE None

\* the body of a description's value_fn lambda
value_fn(description, dat) ==
    LET value == safe_get(dat, description.path)
        p == description.process
    IN  CASE p = "safe_get" -> value
          [] p = "_process_node_temperature" -> _process_node_temperature(value)
          [] p = "_process_node_humidity" -> _process_node_humidity(value)
          [] p = "_process_node_co2" -> _process_node_co2(value)
          [] p = "_process_node_iaq" -> _process_node_iaq(value)
          [] p = "_process_temperature" -> _process_temperature(value)
          [] p = "_process_speed" -> _process_speed(value)
          [] p = "_process_pressure" -> _process_pressure(value)
          [] p = "_process_rssi" -> _process_rssi(value)
          [] p = "_process_uptime" -> _process_uptime(value)
          [] p = "_process_timefilterremain" -> _process_timefilterremain(value)
          [] p = "_process_bypass_position" -> _process_bypass_position(value)

(***************************************************************************)
(* The two entity variants                                                 *)
(***************************************************************************)
DucoboxSensorEntity(description) == [kind |-> "box", description |-> description]

DucoboxNodeSensorEntity(node_id, description) ==
    [kind |-> "node", node_id |-> node_id, description |-> description]

\* a native_value that lets the accessor's exception through
SensorEntity_native_value_uncaught(entity, coordinator) ==
    value_fn(entity.description, coordinator.data)

\* DucoboxSensorEntity.native_value
SensorEntity_native_value(entity, coordinator) ==
    LET r == value_fn(entity.description, coordinator.data)
    IN  IF r = Raised THEN None ELSE r

\* index of the last node of the list whose 'Node' equals node_id, 0 if none
FirstMatch_last(nodes, node_id) ==
    IF \E i \in 1..Len(nodes) : DictGet(nodes[i], "Node") = node_id
    THEN CHOOSE i \in 1..Len(nodes) :
            /\ DictGet(nodes[i], "Node") = node_id
            /\ \A j \in (i + 1)..Len(nodes) : DictGet(nodes[j], "Node") # node_id
    ELSE 0

\* index of the first node of the list whose 'Node' equals node_id, 0 if none
FirstMatch(nodes, node_id) ==
    IF \E i \in 1..Len(nodes) : DictGet(nodes[i], "Node") = node_id
    THEN CHOOSE i \in 1..Len(nodes) :
            /\ DictGet(nodes[i], "Node") = node_id
            /\ \A j \in 1..(i - 1) : DictGet(nodes[j], "Node") # node_id
    ELSE 0

\* DucoboxNodeSensorEntity.native_value
NodeSensorEntity_native_value(entity, coordinator) ==
    LET dat == coordinator.data
    IN
    IF dat.t # "dict" THEN Raised
    ELSE LET nodes == IF "Nodes" \in DOMAIN dat.d THEN dat.d["Nodes"] ELSE ListV(<<>>)
         IN  IF nodes.t # "list" THEN Raised
             ELSE LET i == FirstMatch(nodes.l, entity.node_id)
                      r == value_fn(entity.description, nodes.l[i])
                  IN  IF i = 0 THEN None
                      ELSE IF r = Raised THEN None ELSE r

\* DucoboxSensorEntity.available
SensorEntity_available(entity, coordinator) == coordinator.last_update_success

\* a node entity that is available only while its node reports a value
NodeSensorEntity_available_own(entity, coordinator) ==
    /\ coordinator.last_update_success
    /\ NodeSensorEntity_native_value(entity, coordinator) # None

\* DucoboxNodeSensorEntity.available
NodeSensorEntity_available(entity, coordinator) == coordinator.last_update_success

\* the property of whichever variant the entity is
available(entity, coordinator) ==
    IF entity.kind = "box" THEN SensorEntity_available(entity, coordinator)
    ELSE NodeSensorEntity_available(entity, coordinator)

native_value(entity, coordinator) ==
    IF entity.kind = "box" THEN SensorEntity_native_value(entity, coordinator)
    ELSE NodeSensorEntity_native_value(entity, coordinator)

\* the coordinator object as the entities see it
Coordinator(dat, success) == [data |-> dat, last_update_success |-> success]

(***************************************************************************)
(* DucoboxCoordinator                                                      *)
(***************************************************************************)
\* what the client's endpoints answer
NodesResponse(nodes) == [t |-> "NodesResponse", Nodes |-> nodes]
Opaque == [t |-> "object"]
hasattr_Nodes(resp) == "Nodes" \in DOMAIN resp

\* a node model of the client library; dict() gives its fields or raises
NodeInfo(fields) == [t |-> "NodeInfo", fields |-> fields]
BrokenNodeInfo == [t |-> "NodeInfo"]
node_dict(node) == IF "fields" \in DOMAIN node THEN node.fields ELSE Raised

Pending == [t |-> "pending"]

\* a fetch that takes an info call answering None for a failure
FetchInfo_strict(r) ==
    IF r = Raised \/ r = None THEN Raised
    ELSE r

\* _fetch_data, lines 707-711: data = get_info(); None becomes {}
FetchInfo(r) ==
    IF r = Raised THEN Raised
    ELSE IF r = None THEN EmptyDict
    ELSE r

\* a fetch that keeps a 'Nodes' key the info response already holds
FetchNodes_setdefault(dat, nr) ==
    IF nr = Raised \/ dat.t # "dict" THEN Raised
    ELSE IF "Nodes" \in DOMAIN dat.d THEN dat
    ELSE IF Truthy(nr) /\ hasattr_Nodes(nr)
    THEN IF \E i \in 1..Len(nr.Nodes) : node_dict(nr.Nodes[i]) = Raised
         THEN Raised
         ELSE DictSet(dat, "Nodes",
                      ListV([i \in 1..Len(nr.Nodes) |-> node_dict(nr.Nodes[i])]))
    ELSE DictSet(dat, "Nodes", ListV(<<>>))

\* a fetch that swallows the failure of the nodes call and returns the info
\* fields alone
FetchNodes_partial(dat, nr) ==
    IF dat.t # "dict" THEN Raised
    ELSE IF nr = Raised THEN dat
    ELSE IF Truthy(nr) /\ hasattr_Nodes(nr)
    THEN IF \E i \in 1..Len(nr.Nodes) : node_dict(nr.Nodes[i]) = Raised
         THEN dat
         ELSE DictSet(dat, "Nodes",
                      ListV([i \in 1..Len(nr.Nodes) |-> node_dict(nr.Nodes[i])]))
    ELSE DictSet(dat, "Nodes", ListV(<<>>))

\* a fetch that stores None for 'Nodes' when the nodes response is unusable
FetchNodes_none(dat, nr) ==
    IF nr = Raised \/ dat.t # "dict" THEN Raised
    ELSE IF Truthy(nr) /\ hasattr_Nodes(nr)
    THEN IF \E i \in 1..Len(nr.Nodes) : node_dict(nr.Nodes[i]) = Raised
         THEN Raised
         ELSE DictSet(dat, "Nodes",
                      ListV([i \in 1..Len(nr.Nodes) |-> node_dict(nr.Nodes[i])]))
    ELSE DictSet(dat, "Nodes", None)

\* _fetch_data, lines 713-721: data['Nodes'] from get_nodes(); item assignment
\* raises on anything but a dict
FetchNodes(dat, nr) ==
    IF nr = Raised \/ dat.t # "dict" THEN Raised
    ELSE IF Truthy(nr) /\ hasattr_Nodes(nr)
    THEN IF \E i \in 1..Len(nr.Nodes) : node_dict(nr.Nodes[i]) = Raised
         THEN Raised
         ELSE DictSet(dat, "Nodes",
                      ListV([i \in 1..Len(nr.Nodes) |-> node_dict(nr.Nodes[i])]))
    ELSE DictSet(dat, "Nodes", ListV(<<>>))

\* a fetch that goes on to get_nodes() although get_info() raised
AfterInfo_continue(r) == "info_done"

\* where _fetch_data goes after get_info(): on to get_nodes(), or out by the raise
AfterInfo(r) == IF FetchInfo(r) = Raised THEN "raised" ELSE "info_done"

\* an update that answers a failed fetch with an empty mapping
_async_update_data_swallow(fetched) ==
    IF fetched = Raised THEN [kind |-> "returned", value |-> EmptyDict]
    ELSE [kind |-> "returned", value |-> fetched]

\* _async_update_data: the fetch's mapping, or UpdateFailed for any exception
_async_update_data(fetched) ==
    IF fetched = Raised THEN [kind |-> "UpdateFailed"]
    ELSE [kind |-> "returned", value |-> fetched]

NoOutcome == [kind |-> "none"]

\* the host's DataUpdateCoordinator: keeps the last successful result
CoordinatorData(old, res) == IF res.kind = "returned" THEN res.value ELSE old
CoordinatorSuccess(res) == res.kind = "returned"

\* a lookup that falls back to the BOX descriptions
NODE_SENSORS_get_box(node_type) ==
    IF node_type.t = "str" /\ node_type.s \in NodeTypeCodes
    THEN NODE_SENSORS[node_type.s]
    ELSE NODE_SENSORS["BOX"]

\* NODE_SENSORS.get(node_type, [])
NODE_SENSORS_get(node_type) ==
    IF node_type.t = "str" /\ node_type.s \in NodeTypeCodes
    THEN NODE_SENSORS[node_type.s]
    ELSE <<>>

\* x or default
PyOr(x, default) == IF Truthy(x) THEN x ELSE default

\* the decimal digits
Digit(d) ==
    CASE d = 0 -> "0" [] d = 1 -> "1" [] d = 2 -> "2" [] d = 3 -> "3" [] d = 4 -> "4"
      [] d = 5 -> "5" [] d = 6 -> "6" [] d = 7 -> "7" [] d = 8 -> "8" [] d = 9 -> "9"

\* str() of an int
RECURSIVE Decimal(_)
Decimal(n) ==
    IF n < 0 THEN "-" \o Decimal(-n)
    ELSE IF n < 10 THEN Digit(n)
    ELSE Decimal(n \div 10) \o Digit(n % 10)

\* a value as an f-string renders it (the node ids are ints, strs or None)
PyStr(v) ==
    CASE v.t = "int" -> Decimal(v.n)
      [] v.t = "str" -> v.s
      [] v.t = "none" -> "None"

\* the string made of the given characters
RECURSIVE Join(_)
Join(cs) == IF cs = <<>> THEN "" ELSE Head(cs) \o Join(Tail(cs))

\* the characters of the strings a MAC address is taken from: those of the
\* /info documents below and the fallback "unknown_mac"
MacChars ==
    { <<"a", "a", ":", "b", "b">>,
      <<"A", "0", ":", "b", "-", "1">>,
      <<"u", "n", "k", "n", "o", "w", "n", "_", "m", "a", "c">> }

Chars(s) == CHOOSE cs \in MacChars : Join(cs) = s

\* str.replace(":", "")
str_replace_colon(cs) == SelectSeq(cs, LAMBDA c : c # ":")

\* str.lower(), one character
Lower(c) ==
    CASE
         c = "A" -> "a"
      [] c = "B" -> "b"
      [] c = "C" -> "c"
      [] c = "D" -> "d"
      [] c = "E" -> "e"
      [] c = "F" -> "f"
      [] c = "G" -> "g"
      [] c = "H" -> "h"
      [] c = "I" -> "i"
      [] c = "J" -> "j"
      [] c = "K" -> "k"
      [] c = "L" -> "l"
      [] c = "M" -> "m"
      [] c = "N" -> "n"
      [] c = "O" -> "o"
      [] c = "P" -> "p"
      [] c = "Q" -> "q"
      [] c = "R" -> "r"
      [] c = "S" -> "s"
      [] c = "T" -> "t"
      [] c = "U" -> "u"
      [] c = "V" -> "v"
      [] c = "W" -> "w"
      [] c = "X" -> "x"
      [] c = "Y" -> "y"
      [] c = "Z" -> "z"
      [] OTHER -> c

\* str.lower()
str_lower(cs) == [i \in 1..Len(cs) |-> Lower(cs[i])]

\* async_setup_entry, lines 738-740
mac_address(dat) ==
    PyOr(safe_get(dat, <<"General", "Lan", "Mac", "Val">>), StrV("unknown_mac"))

\* async_setup_entry, line 741; replace() is a method of str alone
device_id(dat) ==
    IF mac_address(dat).t # "str" THEN Raised
    ELSE StrV(Join(str_lower(str_replace_colon(Chars(mac_address(dat).s)))))

\* async_setup_entry, line 760
BoxUniqueIds(device) == [i \in 1..Len(SENSORS) |-> device \o "-" \o SENSORS[i].key]

\* a node device id that leaves the node id out
node_device_id_plain(device, node_id) == device

\* async_setup_entry, line 779
node_device_id(device, node_id) == device \o "-" \o PyStr(node_id)

\* async_setup_entry, lines 773-791: the unique ids of one node's entities
NodeUniqueIds(device, node) ==
    LET node_id == DictGet(node, "Node")
        node_type == PyOr(safe_get(node, <<"General", "Type", "Val">>), StrV("Unknown"))
        node_sensors == NODE_SENSORS_get(node_type)
    IN  [i \in 1..Len(node_sensors) |->
            node_device_id(device, node_id) \o "-" \o node_sensors[i].key]

RECURSIVE AllNodeUniqueIds(_, _)
AllNodeUniqueIds(device, nodes) ==
    IF nodes = <<>> THEN <<>>
    ELSE NodeUniqueIds(device, Head(nodes)) \o AllNodeUniqueIds(device, Tail(nodes))

\* async_setup_entry, lines 759-768
BoxEntities == [i \in 1..Len(SENSORS) |-> DucoboxSensorEntity(SENSORS[i])]

\* async_setup_entry, lines 773-802: the entities of one node
NodeEntities(node) ==
    LET node_id == DictGet(node, "Node")
        node_type == PyOr(safe_get(node, <<"General", "Type", "Val">>), StrV("Unknown"))
        node_sensors == NODE_SENSORS_get(node_type)
    IN  [i \in 1..Len(node_sensors) |-> DucoboxNodeSensorEntity(node_id, node_sensors[i])]

RECURSIVE AllNodeEntities(_)
AllNodeEntities(nodes) ==
    IF nodes = <<>> THEN <<>>
    ELSE NodeEntities(Head(nodes)) \o AllNodeEntities(Tail(nodes))

\* coordinator.data.get('Nodes', [])
SetupNodes(dat) == IF "Nodes" \in DOMAIN dat.d THEN dat.d["Nodes"].l ELSE <<>>

\* async_setup_entry, lines 741, 771 and 772: the MAC address has no replace(),
\* the mapping has no get(), or its 'Nodes' cannot be iterated
SetupRaises(dat) ==
    \/ device_id(dat) = Raised
    \/ dat.t # "dict"
    \/ "Nodes" \in DOMAIN dat.d /\ dat.d["Nodes"].t # "list"

\* async_setup_entry, lines 756-804: the list handed to async_add_entities
async_setup_entry(dat) == BoxEntities \o AllNodeEntities(SetupNodes(dat))

\* async_setup_entry, lines 756-804: the unique_id of each entity of the list
SetupUniqueIds(dat) ==
    BoxUniqueIds(device_id(dat).s) \o AllNodeUniqueIds(device_id(dat).s, SetupNodes(dat))

(***************************************************************************)
(* Inputs: what the box can answer                                         *)
(***************************************************************************)
MaxNodes == 2      \* longest node list of a first refresh (SpecSetup)
MaxNodeId == 2     \* node ids of a first refresh are 1..MaxNodeId (SpecSetup)
MaxRaw == 40       \* raw 'Val' readings are -MaxRaw..MaxRaw (SpecFn)
MaxKeys == 3       \* longest key tuple handed to safe_get (SpecFn)
BypassMax == 255   \* the bypass position's raw range is 0..BypassMax

D2(k1, v1, k2, v2) == DictV((k1 :> v1) @@ (k2 :> v2))
D3(k1, v1, k2, v2, k3, v3) == DictV((k1 :> v1) @@ (k2 :> v2) @@ (k3 :> v3))

SeqsUpTo(S, n) == UNION {[1..k -> S] : k \in 0..n}

\* some /info documents
InfoA ==
    D2("General", D1("Lan", D2("Mac", D1("Val", StrV("aa:bb")),
                               "RssiWifi", D1("Val", IntV(-60)))),
       "Ventilation", D2("Sensor", D1("TempOda", D1("Val", IntV(215))),
                         "Fan", D1("PressSup", D1("Val", IntV(3)))))
InfoB ==
    D3("Nodes", IntV(7),
       "HeatRecovery", D1("Bypass", D1("Pos", D1("Val", IntV(128)))),
       "Ventilation", D1("Sensor", IntV(0)))
InfoC ==
    D1("Ventilation", D2("Sensor", D1("TempOda", D1("Val", StrV("n/a"))),
                         "Fan", D1("SpeedSup", D1("Val", IntV(1200)))))

\* an /info document with upper case and a dash in the MAC address
InfoD == D1("General", D1("Lan", D1("Mac", D1("Val", StrV("A0:b-1")))))

Infos == {Raised, None, InfoA, InfoB, InfoC}

\* a node as the /nodes endpoint reports it; ty "?" leaves the type out
NodeFields(id, ty, temp) ==
    DictV(("Node" :> IntV(id))
          @@ ("General" :> (IF ty = "?" THEN D1("Addr", IntV(id))
                            ELSE D2("Type", D1("Val", StrV(ty)), "Addr", IntV(id))))
          @@ ("Sensor" :> D1("data", D2("Temp", IntV(temp), "Rh", IntV(temp + 30))))
          @@ ("Ventilation" :> D2("State", StrV("AUTO"), "Mode", StrV("-"))))

N(id, ty, temp) == NodeInfo(NodeFields(id, ty, temp))

NodeLists ==
    { <<>>,
      <<N(1, "BOX", 20)>>,
      <<N(1, "BOX", 20), N(2, "UCCO2", 21)>>,
      <<N(2, "UCCO2", 21), N(1, "BOX", 22)>>,
      <<N(1, "BOX", 20), N(1, "BOX", 23)>>,
      <<N(1, "UCCO2", 24)>>,
      <<N(2, "XYZ", 25)>>,
      <<N(3, "?", 26)>>,
      <<N(1, "BOX", 20), BrokenNodeInfo>> }

NodeResps == {Raised, None, Opaque} \cup {NodesResponse(l) : l \in NodeLists}

\* first refreshes with every node type (SpecSetup)
TypeChoices == NodeTypeCodes \cup {"XYZ", "", "?"}
SetupInfos == {None, InfoA, InfoD}
SetupNodeInfos == {N(id, ty, 20) : id \in 1..MaxNodeId, ty \in TypeChoices}
SetupNodeResps ==
    {None} \cup {NodesResponse(l) : l \in SeqsUpTo(SetupNodeInfos, MaxNodes)}

(***************************************************************************)
(* The state machine                                                       *)
(***************************************************************************)
NoCall == [fn |-> "none"]

Init ==
    /\ duco_client \in {"DucoPy", "None"}
    /\ pc = "idle"
    /\ calls = <<>>
    /\ info_resp = Pending
    /\ nodes_resp = Pending
    /\ local_data = None
    /\ outcome = NoOutcome
    /\ data = None
    /\ last_update_success = TRUE
    /\ setup = "pending"
    /\ entities = <<>>
    /\ first_nodes = <<>>
    /\ unique_ids = <<>>
    /\ call = NoCall
    /\ ret = None

\* async_setup_entry builds the coordinator and awaits its first refresh
FirstRefresh ==
    /\ pc = "idle" /\ setup = "pending" /\ outcome = NoOutcome
    /\ pc' = "fetch"
    /\ UNCHANGED <<duco_client, calls, info_resp, nodes_resp, local_data, outcome, data,
                   last_update_success, setup, entities, first_nodes, unique_ids, call, ret>>

\* the host's timer starts the refresh of the next polling interval
TimerRefresh ==
    /\ pc = "idle" /\ setup = "done"
    /\ pc' = "fetch"
    /\ calls' = <<>>
    /\ info_resp' = Pending
    /\ nodes_resp' = Pending
    /\ UNCHANGED <<duco_client, local_data, outcome, data, last_update_success, setup,
                   entities, first_nodes, unique_ids, call, ret>>

\* _fetch_data, lines 701-704
ClientMissing ==
    /\ pc = "fetch" /\ duco_client = "None"
    /\ pc' = "raised"
    /\ UNCHANGED <<duco_client, calls, info_resp, nodes_resp, local_data, outcome, data,
                   last_update_success, setup, entities, first_nodes, unique_ids, call, ret>>

\* _fetch_data, lines 706-711
GetInfo(answers) ==
    /\ pc = "fetch" /\ duco_client # "None"
    /\ \E r \in answers :
        /\ calls' = Append(calls, "info")
        /\ info_resp' = r
        /\ pc' = AfterInfo(r)
        /\ local_data' = IF FetchInfo(r) = Raised THEN local_data ELSE FetchInfo(r)
    /\ UNCHANGED <<duco_client, nodes_resp, outcome, data, last_update_success, setup,
                   entities, first_nodes, unique_ids, call, ret>>

\* _fetch_data, lines 713-724
GetNodes(answers) ==
    /\ pc = "info_done"
    /\ \E nr \in answers :
        /\ calls' = Append(calls, "nodes")
        /\ nodes_resp' = nr
        /\ pc' = IF FetchNodes(local_data, nr) = Raised THEN "raised" ELSE "fetched"
        /\ local_data' = IF FetchNodes(local_data, nr) = Raised THEN local_data
                         ELSE FetchNodes(local_data, nr)
    /\ UNCHANGED <<duco_client, info_resp, outcome, data, last_update_success, setup,
                   entities, first_nodes, unique_ids, call, ret>>

\* _async_update_data ends and the host's coordinator takes the result; a
\* failed first refresh makes the host give up this setup
UpdateDone ==
    /\ pc \in {"fetched", "raised"}
    /\ LET res == _async_update_data(IF pc = "raised" THEN Raised ELSE local_data)
       IN  /\ outcome' = res
           /\ data' = CoordinatorData(data, res)
           /\ last_update_success' = CoordinatorSuccess(res)
           /\ setup' = IF setup = "pending" /\ ~CoordinatorSuccess(res)
                       THEN "not_ready" ELSE setup
    /\ pc' = "idle"
    /\ local_data' = None
    /\ UNCHANGED <<duco_client, calls, info_resp, nodes_resp, entities, first_nodes, unique_ids,
                   call, ret>>

\* a setup that builds the entities again after every successful refresh
SetupEntities_again ==
    /\ pc = "idle" /\ setup \in {"pending", "done"} /\ outcome.kind = "returned"
    /\ entities' = async_setup_entry(data)
    /\ first_nodes' = IF setup = "pending" THEN SetupNodes(data) ELSE first_nodes
    /\ unique_ids' = SetupUniqueIds(data)
    /\ setup' = "done"
    /\ UNCHANGED <<duco_client, pc, calls, info_resp, nodes_resp, local_data, outcome,
                   data, last_update_success, call, ret>>

\* async_setup_entry, lines 737-804, after the first refresh
SetupEntities ==
    /\ pc = "idle" /\ setup = "pending" /\ outcome.kind = "returned"
    /\ IF SetupRaises(data)
       THEN /\ setup' = "failed"
            /\ UNCHANGED <<entities, first_nodes, unique_ids>>
       ELSE /\ entities' = async_setup_entry(data)
            /\ first_nodes' = SetupNodes(data)
            /\ unique_ids' = SetupUniqueIds(data)
            /\ setup' = "done"
    /\ UNCHANGED <<duco_client, pc, calls, info_resp, nodes_resp, local_data, outcome,
                   data, last_update_success, call, ret>>

Next ==
    \/ FirstRefresh
    \/ TimerRefresh
    \/ ClientMissing
    \/ GetInfo(Infos)
    \/ GetNodes(NodeResps)
    \/ UpdateDone
    \/ SetupEntities

Spec == Init /\ [][Next]_vars

\* one setup, with first refreshes over every node type
NextSetup ==
    \/ FirstRefresh
    \/ ClientMissing
    \/ GetInfo(SetupInfos)
    \/ GetNodes(SetupNodeResps)
    \/ UpdateDone
    \/ SetupEntities

SpecSetup == Init /\ [][NextSetup]_vars

(***************************************************************************)
(* The pure functions, applied to inputs drawn from bounded sets           *)
(***************************************************************************)
\* nested values over the keys "a" and "b", two dicts deep
SGKeys == {"a", "b"}
SGLeaves == {None, IntV(1)}
DictsOver(vals) == {DictV(f) : f \in UNION {[S -> vals] : S \in SUBSET SGKeys}}
SGLevel1 == SGLeaves \cup DictsOver(SGLeaves)
SGData == SGLeaves \cup DictsOver(SGLevel1)

\* the document that follows the first k keys of path and holds leaf there
RECURSIVE PathDoc(_, _, _)
PathDoc(path, k, leaf) ==
    IF k = 0 THEN leaf ELSE D1(Head(path), PathDoc(Tail(path), k - 1, leaf))

RawVals == {IntV(v) : v \in (-MaxRaw)..MaxRaw}
BypassVals == {IntV(v) : v \in 0..BypassMax}
OddLeaves == {None, EmptyDict, IntV(0), StrV("n/a")}

\* the leaves tried at depth k of a path
Leaves(path, k) ==
    IF k < Len(path) THEN OddLeaves
    ELSE OddLeaves \cup RawVals
         \cup (IF path = <<"HeatRecovery", "Bypass", "Pos", "Val">> THEN BypassVals ELSE {})

TempIdx == {i \in 1..Len(SENSORS) : SENSORS[i].process = "_process_temperature"}
PressIdx == {i \in 1..Len(SENSORS) : SENSORS[i].process = "_process_pressure"}

\* each behaviour applies one function to one input
InitFn == Init

\* safe_get(data, *keys)
CallSafeGet ==
    /\ call = NoCall
    /\ \E d \in SGData, keys \in SeqsUpTo(SGKeys, MaxKeys) :
        /\ call' = [fn |-> "safe_get", data |-> d, keys |-> keys]
        /\ ret' = safe_get(d, keys)
    /\ UNCHANGED coordVars

\* native_value of a box-level entity over a cached mapping
ReadBox ==
    /\ call = NoCall
    /\ \E i \in 1..Len(SENSORS) :
        \E k \in 0..Len(SENSORS[i].path) :
          \E leaf \in Leaves(SENSORS[i].path, k) :
            LET d == PathDoc(SENSORS[i].path, k, leaf)
            IN  /\ call' = [fn |-> "box", description |-> SENSORS[i], depth |-> k,
                            leaf |-> leaf, data |-> d]
                /\ ret' = SensorEntity_native_value(DucoboxSensorEntity(SENSORS[i]),
                                                    Coordinator(d, TRUE))
    /\ UNCHANGED coordVars

\* native_value of a node entity over a cached mapping that holds its node
ReadNode ==
    /\ call = NoCall
    /\ \E ty \in NodeTypeCodes :
        \E i \in 1..Len(NODE_SENSORS[ty]) :
          \E k \in 0..Len(NODE_SENSORS[ty][i].path) :
            \E leaf \in Leaves(NODE_SENSORS[ty][i].path, k) :
              LET desc == NODE_SENSORS[ty][i]
                  node == DictSet(IF k = 0 THEN EmptyDict ELSE PathDoc(desc.path, k, leaf),
                                  "Node", IntV(1))
                  d == D1("Nodes", ListV(<<node>>))
              IN  /\ call' = [fn |-> "node", description |-> desc, depth |-> k,
                              leaf |-> IF k = 0 THEN EmptyDict ELSE leaf, data |-> node]
                  /\ ret' = NodeSensorEntity_native_value(
                                DucoboxNodeSensorEntity(IntV(1), desc), Coordinator(d, TRUE))
    /\ UNCHANGED coordVars

\* a temperature sensor and a pressure sensor reading the same raw value
ReadScaled ==
    /\ call = NoCall
    /\ \E v \in (-MaxRaw)..MaxRaw, ti \in TempIdx, pi \in PressIdx :
        LET td == PathDoc(SENSORS[ti].path, 4, IntV(v))
            pd == PathDoc(SENSORS[pi].path, 4, IntV(v))
        IN  /\ call' = [fn |-> "scaled", v |-> v, temp |-> SENSORS[ti].key,
                        press |-> SENSORS[pi].key]
            /\ ret' = [temp |-> SensorEntity_native_value(DucoboxSensorEntity(SENSORS[ti]),
                                                          Coordinator(td, TRUE)),
                       press |-> SensorEntity_native_value(DucoboxSensorEntity(SENSORS[pi]),
                                                           Coordinator(pd, TRUE))]
    /\ UNCHANGED coordVars

NextFn ==
    \/ CallSafeGet
    \/ ReadBox
    \/ ReadNode
    \/ ReadScaled

SpecFn == InitFn /\ [][NextFn]_vars

(***************************************************************************)
(* Properties                                                              *)
(***************************************************************************)
\* the refresh in progress, or the one that just ended, has hit one of the
\* failures of _fetch_data
FetchFailed ==
    \/ duco_client = "None"
    \/ info_resp = Raised
    \/ nodes_resp = Raised
    \/ /\ "Nodes" \in DOMAIN nodes_resp
       /\ \E i \in 1..Len(nodes_resp.Nodes) : "fields" \notin DOMAIN nodes_resp.Nodes[i]

\* a refresh has ended and no other has started since
JustEnded == pc = "idle" /\ outcome # NoOutcome

\* the info fields the box answered (None counts as no fields)
InfoFields == IF info_resp = None THEN EmptyDict ELSE info_resp

\* the node records the nodes endpoint answered, in its order
NodesAnswered ==
    IF "Nodes" \in DOMAIN nodes_resp
    THEN [i \in 1..Len(nodes_resp.Nodes) |-> nodes_resp.Nodes[i].fields]
    ELSE <<>>

\* C1: a successful fetch returns one mapping: the info endpoint's fields, plus
\* 'Nodes' holding one dict per node the nodes endpoint returned, in the same
\* order; 'Nodes' is always there and replaces a 'Nodes' the info response had.
C1_FetchMergesInfoAndNodes ==
    (JustEnded /\ outcome.kind = "returned") =>
        LET v == outcome.value
        IN  /\ v.t = "dict"
            /\ DOMAIN v.d = (DOMAIN InfoFields.d) \cup {"Nodes"}
            /\ \A k \in (DOMAIN InfoFields.d) \ {"Nodes"} : v.d[k] = InfoFields.d[k]
            /\ v.d["Nodes"] = ListV(NodesAnswered)

C1_Witness ==
    /\ JustEnded /\ outcome.kind = "returned"
    /\ "Nodes" \in DOMAIN InfoFields.d
    /\ Len(NodesAnswered) = 2
    /\ outcome.value.d["Nodes"].l[1] # outcome.value.d["Nodes"].l[2]

\* C2: a fetch that fails (no client, get_info raises, get_nodes raises, a
\* node's conversion raises) ends in UpdateFailed and in nothing else; a
\* mapping is returned only by a fetch that did not fail, and it holds 'Nodes'.
C2_FailureIsUpdateFailed ==
    /\ outcome.kind \in {"none", "returned", "UpdateFailed"}
    /\ pc = "raised" => FetchFailed
    /\ JustEnded =>
        /\ FetchFailed <=> outcome.kind = "UpdateFailed"
        /\ outcome.kind = "returned" => "Nodes" \in DOMAIN outcome.value.d

C2_Witness ==
    /\ JustEnded /\ outcome.kind = "UpdateFailed"
    /\ info_resp = InfoA
    /\ "Nodes" \in DOMAIN nodes_resp
    /\ \E i \in 1..Len(nodes_resp.Nodes) : "fields" \notin DOMAIN nodes_resp.Nodes[i]

\* C3: in one polling interval the info endpoint is called at most once, the
\* nodes endpoint at most once and only after info, and nothing is retried:
\* when get_info raises, get_nodes is not called.
C3_OneCallEachInOrder ==
    /\ calls \in {<<>>, <<"info">>, <<"info", "nodes">>}
    /\ info_resp = Raised => calls = <<"info">>
    /\ duco_client = "None" => calls = <<>>

C3_Witness ==
    /\ setup = "done" /\ JustEnded
    /\ info_resp = Raised /\ calls = <<"info">>

\* the values all entities report from a cached mapping
NativeValues(dat) ==
    [i \in 1..Len(entities) |-> native_value(entities[i], Coordinator(dat, TRUE))]

\* C4: coordinator.data is the result of the most recent successful fetch: a
\* refresh that ends in failure leaves it, and so every entity's native_value,
\* as it was, and one that succeeds replaces it by the fetched mapping.
C4_FailureKeepsCache ==
    [][(pc \in {"fetched", "raised"} /\ pc' = "idle") =>
         IF FetchFailed
         THEN data' = data /\ NativeValues(data') = NativeValues(data)
         ELSE data' = DictSet(InfoFields, "Nodes", ListV(NodesAnswered))]_vars

C4_Witness ==
    /\ setup = "done" /\ JustEnded /\ outcome.kind = "UpdateFailed"
    /\ Len(entities) > Len(SENSORS)
    /\ \E i \in 1..Len(SENSORS) : NativeValues(data)[i] # None
    /\ \E i \in (Len(SENSORS) + 1)..Len(entities) : NativeValues(data)[i] # None

\* C5: every entity's available flag equals the success of the most recent
\* refresh, whether or not its own field or node is in the data.
C5_AvailableIsLastSuccess ==
    /\ \A i \in 1..Len(entities) :
          available(entities[i], Coordinator(data, last_update_success))
              <=> outcome.kind = "returned"
    /\ JustEnded => (outcome.kind = "returned" <=> ~FetchFailed)

C5_Witness ==
    /\ setup = "done" /\ JustEnded /\ outcome.kind = "returned"
    /\ \E i \in (Len(SENSORS) + 1)..Len(entities) :
          /\ FirstMatch(data.d["Nodes"].l, entities[i].node_id) = 0
          /\ available(entities[i], Coordinator(data, last_update_success))

\* the nested lookup data[k1]...[kn] is defined
RECURSIVE Present(_, _)
Present(dat, keys) ==
    \/ keys = <<>>
    \/ /\ dat.t = "dict"
       /\ Head(keys) \in DOMAIN dat.d
       /\ Present(dat.d[Head(keys)], Tail(keys))

\* data[k1]...[kn], where it is defined
RECURSIVE Lookup(_, _)
Lookup(dat, keys) == IF keys = <<>> THEN dat ELSE Lookup(dat.d[Head(keys)], Tail(keys))

\* C6: safe_get never raises and is the nested lookup: data[k1]...[kn] when
\* every value on the way is a dict holding the next key, None otherwise, and
\* data itself for no keys.
C6_SafeGetIsNestedLookup ==
    call.fn = "safe_get" =>
        /\ ret # Raised
        /\ ret = IF Present(call.data, call.keys) THEN Lookup(call.data, call.keys)
                 ELSE None
        /\ call.keys = <<>> => ret = call.data

C6_Witness ==
    /\ call.fn = "safe_get"
    /\ call.keys = <<"a", "b">>
    /\ call.data.t = "dict" /\ DictGet(call.data, "a") = IntV(1)
    /\ ret = None

\* 10 * r, as Python computes it for a float r
TenTimes(r) == FMul(FromInt(10), r)

\* C7: the temperature and pressure sensors report the raw integer v scaled
\* by one tenth: the reported r has 10 * r = v, and dividing by 10 and
\* multiplying by 0.1 give the same result for the same v.
C7_TenthScaling ==
    call.fn = "scaled" =>
        /\ TenTimes(ret.temp) = FromInt(call.v)
        /\ TenTimes(ret.press) = FromInt(call.v)
        /\ ret.temp = ret.press

\* the integer percentage nearest to v * 100 / BypassMax
Nearest(v) ==
    CHOOSE p \in 0..100 :
        \A q \in 0..100 : Abs(BypassMax * p - 100 * v) <= Abs(BypassMax * q - 100 * v)

\* a reading of the bypass position sensor with a raw value in 0..BypassMax
BypassRead ==
    /\ call.fn = "box"
    /\ call.description.key = "BypassPos"
    /\ call.depth = Len(call.description.path)
    /\ call.leaf \in BypassVals

\* C8: the bypass position sensor maps a raw v in 0..255 to the integer
\* percentage nearest to v*100/255: an int in 0..100, 0 for 0, 100 for 255,
\* never less than the percentage of v - 1.
C8_BypassNearestPercent ==
    BypassRead =>
        /\ ret = IntV(Nearest(call.leaf.n))
        /\ ret.n \in 0..100
        /\ call.leaf.n = 0 => ret.n = 0
        /\ call.leaf.n = BypassMax => ret.n = 100
        /\ call.leaf.n > 0 =>
              _process_bypass_position(IntV(call.leaf.n - 1)).n <= ret.n

C8_Witness ==
    /\ BypassRead
    /\ call.leaf = IntV(2)
    /\ ret = IntV(1)

\* C9: a sensor whose field path is absent from the data (a key on the path
\* missing, or a value on the way not a dict) reports None, for each of the
\* 12 box-level sensors and each node sensor description.
C9_AbsentFieldIsNone ==
    (call.fn \in {"box", "node"} /\ ~Present(call.data, call.description.path)) =>
        ret = None

C9_Witness ==
    /\ call.fn = "box"
    /\ call.description.key = "SpeedSup"
    /\ call.data = D1("Ventilation", D1("Fan", IntV(0)))
    /\ ~Present(call.data, call.description.path)
    /\ ret = None

\* the type code of a node record, "" when it has none that is a string
TypeCode(node) ==
    IF /\ "General" \in DOMAIN node.d
       /\ node.d["General"].t = "dict"
       /\ "Type" \in DOMAIN node.d["General"].d
       /\ node.d["General"].d["Type"].t = "dict"
       /\ "Val" \in DOMAIN node.d["General"].d["Type"].d
       /\ node.d["General"].d["Type"].d["Val"].t = "str"
    THEN node.d["General"].d["Type"].d["Val"].s
    ELSE ""

\* the descriptions listed under a type code; none for any other code
Listed(code) == IF code \in NodeTypeCodes THEN NODE_SENSORS[code] ELSE <<>>

RECURSIVE ListedTotal(_)
ListedTotal(nodes) ==
    IF nodes = <<>> THEN 0
    ELSE Len(Listed(TypeCode(Head(nodes)))) + ListedTotal(Tail(nodes))

\* the number of entities before the first one of the node at position n
Before(nodes, n) == Len(SENSORS) + ListedTotal(SubSeq(nodes, 1, n - 1))

\* C10: setup creates the 12 box-level entities and then, for each node of the
\* first refresh in order, one entity per description listed under the
\* node's type code; a node with no type code or another code gets none.
C10_SetupCreatesListedEntities ==
    setup = "done" =>
        /\ Len(SENSORS) = 12
        /\ Len(entities) = 12 + ListedTotal(NodesAnswered)
        /\ \A i \in 1..12 : entities[i] = [kind |-> "box", description |-> SENSORS[i]]
        /\ \A n \in 1..Len(NodesAnswered) :
              \A j \in 1..Len(Listed(TypeCode(NodesAnswered[n]))) :
                 entities[Before(NodesAnswered, n) + j] =
                     [kind |-> "node", node_id |-> NodesAnswered[n].d["Node"],
                      description |-> NODE_SENSORS[TypeCode(NodesAnswered[n])][j]]
        /\ NodesAnswered = <<>> => Len(entities) = 12

C10_Witness ==
    /\ setup = "done"
    /\ Len(NodesAnswered) = 2
    /\ TypeCode(NodesAnswered[1]) = "XYZ"
    /\ TypeCode(NodesAnswered[2]) = "VLVCO2RH"
    /\ Len(entities) = 22

\* the raw field at a path of a record, None where the path is absent
RawField(dat, path) == IF Present(dat, path) THEN Lookup(dat, path) ELSE None

\* the positions of the node entities among the entities
NodeEntityIdx == {i \in 1..Len(entities) : entities[i].kind = "node"}

\* the positions in the cached 'Nodes' list of the nodes with the given id
Hits(node_id) ==
    {n \in 1..Len(data.d["Nodes"].l) : data.d["Nodes"].l[n].d["Node"] = node_id}

Least(S) == CHOOSE n \in S : \A k \in S : n <= k

\* C11: a node entity's native_value is computed from the first node of the
\* currently cached 'Nodes' list whose 'Node' equals the entity's node id and
\* from no other; with no such node in the list the value is None while the
\* entity is as available as the last refresh was successful, and whenever
\* the node is in the list again the value is that node's field again.
C11_ValueFromFirstMatchingNode ==
    setup = "done" =>
        \A i \in NodeEntityIdx :
            LET e == entities[i]
                c == Coordinator(data, last_update_success)
                hits == Hits(e.node_id)
            IN  IF hits = {}
                THEN /\ native_value(e, c) = None
                     /\ outcome.kind = "returned" => available(e, c)
                ELSE native_value(e, c) =
                        RawField(data.d["Nodes"].l[Least(hits)], e.description.path)

C11_Witness ==
    /\ setup = "done" /\ JustEnded /\ outcome.kind = "returned"
    /\ \E i, j \in NodeEntityIdx :
          /\ entities[i].description.key = "Temp"
          /\ Hits(entities[i].node_id) = {1, 2}
          /\ native_value(entities[i], Coordinator(data, TRUE)) = IntV(20)
          /\ RawField(data.d["Nodes"].l[2], entities[i].description.path) = IntV(23)
          /\ Hits(entities[j].node_id) = {}
          /\ native_value(entities[j], Coordinator(data, TRUE)) = None
          /\ available(entities[j], Coordinator(data, last_update_success))

\* the nodes endpoint answered, with nothing that holds a 'Nodes' attribute
NodesUnusable ==
    /\ calls = <<"info", "nodes">>
    /\ nodes_resp # Raised
    /\ nodes_resp = None \/ "Nodes" \notin DOMAIN nodes_resp

\* every entity of the given kind is available and reports None
AllNone(kind) ==
    \A i \in 1..Len(entities) :
        entities[i].kind = kind =>
            /\ available(entities[i], Coordinator(data, last_update_success))
            /\ native_value(entities[i], Coordinator(data, last_update_success)) = None

\* C12: a fetch succeeds although an endpoint returns nothing usable: when the
\* info call returns None the mapping holds 'Nodes' alone, and when the nodes
\* response is falsy or has no 'Nodes' attribute 'Nodes' is the empty list; the
\* refresh is successful either way, so the box-level entities (no info) or
\* the node entities (no nodes) are available with value None.
C12_NothingUsableStillSucceeds ==
    /\ (JustEnded /\ info_resp = None /\ ~FetchFailed) =>
          /\ outcome.kind = "returned"
          /\ DOMAIN outcome.value.d = {"Nodes"}
          /\ last_update_success /\ data = outcome.value
          /\ AllNone("box")
    /\ (JustEnded /\ NodesUnusable) =>
          /\ outcome.kind = "returned"
          /\ outcome.value.d["Nodes"] = ListV(<<>>)
          /\ last_update_success /\ data = outcome.value
          /\ AllNone("node")

C12_Witness ==
    /\ setup = "done" /\ JustEnded
    /\ info_resp = None /\ nodes_resp = Opaque
    /\ data = D1("Nodes", ListV(<<>>))
    /\ Len(first_nodes) = 2 /\ Len(entities) > Len(SENSORS)
    /\ AllNone("box") /\ AllNone("node")

\* the conversions that compute with the raw value
Computing == {"_process_temperature", "_process_pressure", "_process_bypass_position"}

\* a reading of a box-level sensor whose 'Val' holds a non-numeric value
NonNumericRead ==
    /\ call.fn = "box"
    /\ call.depth = Len(call.description.path)
    /\ call.leaf.t \in {"str", "dict"}

\* C13: reading native_value of a box-level entity raises for no cached
\* mapping: where the stored accessor raises (a computing conversion over a
\* 'Val' that is not a number) the error is caught and the value is None.
C13_BoxValueNeverRaises ==
    call.fn = "box" =>
        /\ ret # Raised
        /\ value_fn(call.description, call.data) = Raised => ret = None
        /\ (NonNumericRead /\ call.description.process \in Computing) =>
              /\ value_fn(call.description, call.data) = Raised
              /\ ret = None

C13_Witness ==
    /\ NonNumericRead
    /\ call.description.key = "TempOda"
    /\ call.leaf = StrV("n/a")
    /\ value_fn(call.description, call.data) = Raised
    /\ ret = None

\* the mapping is one a node entity can read: a dict whose 'Nodes' is a list
\* of dicts
Readable(dat) ==
    /\ dat.t = "dict"
    /\ "Nodes" \in DOMAIN dat.d
    /\ dat.d["Nodes"].t = "list"
    /\ \A n \in 1..Len(dat.d["Nodes"].l) : dat.d["Nodes"].l[n].t = "dict"

\* the values the nodes with the given id hold at a path
Extracted(node_id, path) ==
    {RawField(data.d["Nodes"].l[n], path) : n \in Hits(node_id)}

\* C14: reading native_value of a node entity raises for no mapping that a
\* successful fetch can produce: after any sequence of refreshes the cached
\* mapping is a dict with a list of dicts under 'Nodes', and the result is
\* the value extracted from a node with the entity's id, or None.
C14_NodeValueNeverRaises ==
    /\ (JustEnded /\ outcome.kind = "returned") => Readable(outcome.value)
    /\ setup = "done" =>
          /\ Readable(data)
          /\ \A i \in NodeEntityIdx :
                LET v == native_value(entities[i], Coordinator(data, last_update_success))
                IN  /\ v # Raised
                    /\ \/ v = None
                       \/ v \in Extracted(entities[i].node_id, entities[i].description.path)

C14_Witness ==
    /\ setup = "done" /\ JustEnded /\ outcome.kind = "returned"
    /\ info_resp = InfoB
    /\ nodes_resp = NodesResponse(<<N(2, "UCCO2", 21), N(1, "BOX", 22)>>)
    /\ \E i, j \in NodeEntityIdx :
          /\ entities[i].node_id = IntV(1) /\ entities[j].node_id = IntV(1)
          /\ native_value(entities[i], Coordinator(data, last_update_success)) = IntV(22)
          /\ native_value(entities[j], Coordinator(data, last_update_success)) = None

\* the device id of the setup's first refresh: the MAC address the /info
\* document holds without its colons and in lower case
DeviceOf ==
    IF info_resp = InfoA THEN "aabb"
    ELSE IF info_resp = InfoD THEN "a0b-1"
    ELSE "unknown_mac"

\* the elements of a sequence are pairwise distinct
Distinct(s) == \A i, j \in 1..Len(s) : i # j => s[i] # s[j]

\* the 'Node' ids of the first refresh's nodes, and the keys of a table
FirstNodeIds == [n \in 1..Len(first_nodes) |-> first_nodes[n].d["Node"]]
Keys(descriptions) == [i \in 1..Len(descriptions) |-> descriptions[i].key]

\* C15: the entities one setup creates have pairwise distinct unique ids when
\* the nodes of the first refresh have pairwise distinct 'Node' ids: a box id
\* is '<device_id>-<key>', a node id is '<device_id>-<node_id>-<key>', the keys
\* are distinct within SENSORS and within each NODE_SENSORS list, and no box
\* id equals a node id.
C15_UniqueIdsDistinct ==
    /\ Distinct(Keys(SENSORS))
    /\ \A ty \in NodeTypeCodes : Distinct(Keys(NODE_SENSORS[ty]))
    /\ setup = "done" =>
          /\ Len(unique_ids) = Len(entities)
          /\ \A i \in 1..Len(entities) :
                unique_ids[i] =
                    IF entities[i].kind = "box"
                    THEN DeviceOf \o "-" \o entities[i].description.key
                    ELSE DeviceOf \o "-" \o ToString(entities[i].node_id.n)
                             \o "-" \o entities[i].description.key
          /\ \A i, j \in 1..Len(entities) :
                entities[i].kind # entities[j].kind => unique_ids[i] # unique_ids[j]
          /\ Distinct(FirstNodeIds) => Distinct(unique_ids)

C15_Witness ==
    /\ setup = "done"
    /\ info_resp = InfoD
    /\ Len(first_nodes) = 2 /\ Distinct(FirstNodeIds)
    /\ \E i, j \in NodeEntityIdx :
          /\ unique_ids[i] = "a0b-1-1-Temp"
          /\ unique_ids[j] = "a0b-1-2-Temp"
    /\ Distinct(unique_ids)

\* the entities are those of the first refresh's nodes: the box-level ones,
\* then for each of those nodes in order one per description of its type
EntitiesOfFirstRefresh ==
    /\ Len(entities) = Len(SENSORS) + ListedTotal(first_nodes)
    /\ \A i \in 1..Len(SENSORS) : entities[i] = [kind |-> "box", description |-> SENSORS[i]]
    /\ \A n \in 1..Len(first_nodes) :
          \A j \in 1..Len(Listed(TypeCode(first_nodes[n]))) :
             entities[Before(first_nodes, n) + j] =
                 [kind |-> "node", node_id |-> first_nodes[n].d["Node"],
                  description |-> NODE_SENSORS[TypeCode(first_nodes[n])][j]]

\* the nodes of the cached mapping
CachedNodes == data.d["Nodes"].l

\* C16: the set of entities is fixed by the first refresh and no later refresh
\* changes it: a node that first appears later gets no entity, a node that
\* disappears keeps its entities, and a node whose type code changes keeps
\* the descriptions of its original type.
C16_EntitiesFixedByFirstRefresh ==
    /\ [](setup = "done" =>
            /\ EntitiesOfFirstRefresh
            /\ \A n \in 1..Len(CachedNodes) :
                  (\A k \in 1..Len(first_nodes) :
                      first_nodes[k].d["Node"] # CachedNodes[n].d["Node"])
                  => \A i \in NodeEntityIdx :
                        entities[i].node_id # CachedNodes[n].d["Node"])
    /\ [][setup = "done" =>
            /\ setup' = "done"
            /\ entities' = entities
            /\ unique_ids' = unique_ids
            /\ first_nodes' = first_nodes]_vars

C16_Witness ==
    /\ setup = "done" /\ JustEnded /\ outcome.kind = "returned"
    /\ Len(first_nodes) = 2
    /\ TypeCode(first_nodes[1]) = "UCCO2" /\ first_nodes[1].d["Node"] = IntV(2)
    /\ TypeCode(first_nodes[2]) = "BOX" /\ first_nodes[2].d["Node"] = IntV(1)
    /\ Len(CachedNodes) = 1
    /\ TypeCode(CachedNodes[1]) = "UCCO2" /\ CachedNodes[1].d["Node"] = IntV(1)
    /\ Len(entities) = Len(SENSORS) + Len(NODE_SENSORS["UCCO2"]) + Len(NODE_SENSORS["BOX"])
    /\ \E i \in NodeEntityIdx :
          entities[i].node_id = IntV(1) /\ entities[i].description.node_type = "BOX"
    /\ \E i \in NodeEntityIdx : entities[i].node_id = IntV(2)

\* every node sensor description, and those with a given key
NodeDescriptions ==
    UNION {{NODE_SENSORS[ty][j] : j \in 1..Len(NODE_SENSORS[ty])} : ty \in NodeTypeCodes}
DescriptionsOf(key) == {d \in NodeDescriptions : d.key = key}

\* the processor the given type's description wires to a key
ProcessOf(ty, key) ==
    (CHOOSE d \in DescriptionsOf(key) : d.node_type = ty).process

\* C17: node sensor values pass through unchanged and independently of the
\* node type: each of the keys State, Mode, FlowLvlTgt, TimeStateRemain,
\* TimeStateEnd, Temp, Rh, IaqRh, Co2, IaqCo2 appears under several types, and
\* for every node record each type's description for a key returns the same
\* value, the raw field at the key's path, although 'Rh' goes through the
\* humidity processor for BOX and BSRH and through the air quality processor
\* for VLVRH and VLVCO2RH.
C17_NodeValuesPassThrough ==
    /\ {d.key : d \in NodeDescriptions} =
          {"State", "Mode", "FlowLvlTgt", "TimeStateRemain", "TimeStateEnd",
           "Temp", "Rh", "IaqRh", "Co2", "IaqCo2"}
    /\ \A d \in NodeDescriptions : Cardinality(DescriptionsOf(d.key)) > 1
    /\ ProcessOf("BOX", "Rh") = "_process_node_humidity"
    /\ ProcessOf("BSRH", "Rh") = "_process_node_humidity"
    /\ ProcessOf("VLVRH", "Rh") = "_process_node_iaq"
    /\ ProcessOf("VLVCO2RH", "Rh") = "_process_node_iaq"
    /\ call.fn = "node" =>
          /\ ret = RawField(call.data, call.description.path)
          /\ \A d \in DescriptionsOf(call.description.key) :
                /\ d.path = call.description.path
                /\ value_fn(d, call.data) = RawField(call.data, d.path)
                /\ value_fn(d, call.data) = ret

C17_Witness ==
    /\ call.fn = "node"
    /\ call.description.key = "Rh"
    /\ call.description.node_type = "VLVRH"
    /\ call.description.process = "_process_node_iaq"
    /\ call.depth = Len(call.description.path)
    /\ call.leaf = IntV(37)
    /\ ret = IntV(37)
    /\ \E d \in DescriptionsOf("Rh") :
          /\ d.node_type = "BOX" /\ d.process = "_process_node_humidity"
          /\ value_fn(d, call.data) = IntV(37)

====
